---------------------------- MODULE Spec2Model ----------------------------
(***************************************************************************)
(* Model of phase_plane_animator: the RK4 stepper, the adaptive controller *)
(* rka, the trajectory simulator sim_rk4 with its proximity stop, the      *)
(* batch distance profile min_prec_dist, the click handler on_mouse with   *)
(* get_plot_indices and the Animator (src/RKtest.py), and the iterative    *)
(* map simulator sim with generate_cobweb_points (src/iterative_maps.py).  *)
(*                                                                         *)
(* Numbers.  The code computes in IEEE binary64.  The model keeps the same *)
(* kind of arithmetic, binary floating point with round-to-nearest-even    *)
(* after every operation, but with a significand of Precision bits, so     *)
(* that every exact intermediate product fits TLC's 32-bit integers.  A    *)
(* value is a record [inf, m, e] standing for m * 2^e; the exponent is not *)
(* bounded (nothing the model runs comes near binary64's exponent range),  *)
(* and the only non-finite value is the +inf that errorRatio**(-0.2)       *)
(* yields for errorRatio = 0.  Vector fields are taken to return finite    *)
(* values.                                                                 *)
(*                                                                         *)
(* Evaluation order.  Python evaluates an operand, an argument or the      *)
(* right-hand side of an assignment once, and then uses the value.  Where  *)
(* a value is used more than once the model binds it the same way, as the  *)
(* element of a one-element set (x \in {e}), so that e is computed once.   *)
(***************************************************************************)
EXTENDS Integers, Sequences, FiniteSets, TLC

(***************************************************************************)
(* Floating point                                                          *)
(***************************************************************************)
Precision == 7

Pow2(k) == 2 ^ k

Abs(i) == IF i < 0 THEN -i ELSE i

Sgn(i) == IF i < 0 THEN -1 ELSE IF i > 0 THEN 1 ELSE 0

\* the element of a one-element set
The(S) == CHOOSE v \in S : TRUE

RECURSIVE BitLen(_)
BitLen(a) == IF a = 0 THEN 0 ELSE 1 + BitLen(a \div 2)

\* a >= 0 shifted right by k >= 1 bits, round half to even
RoundShift(a, k) ==
    LET q    == a \div Pow2(k)
        r    == a % Pow2(k)
        half == Pow2(k - 1)
    IN  IF r > half \/ (r = half /\ q % 2 = 1) THEN q + 1 ELSE q

Zero == [inf |-> FALSE, m |-> 0, e |-> 0]

PosInf == [inf |-> TRUE, m |-> 1, e |-> 0]

\* the float nearest to the exact value m * 2^e, in canonical form
\* (m = 0, or 2^(Precision-1) <= |m| < 2^Precision)
Norm(mant, ex) ==
    The({ IF m = 0 THEN Zero
          ELSE The({ IF b > Precision
                     THEN The({ IF q = Pow2(Precision)
                                THEN [inf |-> FALSE,
                                      m |-> Sgn(m) * Pow2(Precision - 1),
                                      e |-> e + b - Precision + 1]
                                ELSE [inf |-> FALSE, m |-> Sgn(m) * q,
                                      e |-> e + b - Precision]
                                : q \in {RoundShift(Abs(m), b - Precision)} })
                     ELSE [inf |-> FALSE, m |-> m * Pow2(Precision - b),
                           e |-> e - (Precision - b)]
                     : b \in {BitLen(Abs(m))} })
          : m \in {mant}, e \in {ex} })

FromInt(i) == Norm(i, 0)

FNeg(x) == The({ [a EXCEPT !.m = -a.m] : a \in {x} })

FAbs(x) == The({ [a EXCEPT !.m = Abs(a.m)] : a \in {x} })

\* a + b of finite a, b: the exact sum rounded once; an operand more than
\* Precision + 1 binary places below the other is absorbed
FAdd(x, y) ==
    The({ IF a.m = 0 THEN b
          ELSE IF b.m = 0 THEN a
          ELSE LET hi == IF a.e >= b.e THEN a ELSE b
                   lo == IF a.e >= b.e THEN b ELSE a
                   d  == hi.e - lo.e
               IN  IF d > Precision + 1 THEN hi
                   ELSE Norm(hi.m * Pow2(d) + lo.m, lo.e)
          : a \in {x}, b \in {y} })

FSub(a, b) == FAdd(a, FNeg(b))

\* a * b; +inf times a positive finite value is +inf
FMul(x, y) ==
    The({ IF a.inf \/ b.inf THEN PosInf
          ELSE Norm(a.m * b.m, a.e + b.e)
          : a \in {x}, b \in {y} })

\* a / b of finite a and finite b # 0, correctly rounded (two guard bits
\* and a sticky bit)
FDiv(x, y) ==
    The({ IF a.m = 0 THEN Zero
          ELSE LET num == Abs(a.m) * Pow2(Precision + 2)
                   den == Abs(b.m)
                   q   == num \div den
                   st  == IF num % den = 0 THEN 0 ELSE 1
               IN  Norm(Sgn(a.m) * Sgn(b.m) * (2 * q + st),
                        a.e - b.e - Precision - 3)
          : a \in {x}, b \in {y} })

FLt(x, y) ==
    The({ IF a.inf THEN FALSE
          ELSE IF b.inf THEN TRUE
          ELSE FSub(a, b).m < 0
          : a \in {x}, b \in {y} })

FLe(x, y) == The({ a = b \/ FLt(a, b) : a \in {x}, b \in {y} })

\* largest r with r * r <= a, by bisection on lo <= r < hi
RECURSIVE ISqrtIn(_, _, _)
ISqrtIn(a, lo, hi) ==
    IF hi - lo <= 1 THEN lo
    ELSE The({ IF mid * mid <= a THEN ISqrtIn(a, mid, hi)
               ELSE ISqrtIn(a, lo, mid)
               : mid \in {(lo + hi) \div 2} })

ISqrt(a) == ISqrtIn(a, 0, Pow2(15))

\* np.sqrt of a finite a >= 0, correctly rounded
FSqrt(x) ==
    The({ IF a.m = 0 THEN Zero
          ELSE LET k == IF (a.e - (Precision + 2)) % 2 = 0
                        THEN Precision + 2 ELSE Precision + 3
                   M == a.m * Pow2(k)
               IN  The({ Norm(2 * r + (IF r * r = M THEN 0 ELSE 1),
                              ((a.e - k) \div 2) - 1)
                         : r \in {ISqrt(M)} })
          : a \in {x} })

\* <<quotient, remainder>> of 2^k divided by A > 1; by doubling where 2^k
\* itself is past 32 bits
RECURSIVE QuotPow2(_, _)
QuotPow2(k, A) ==
    IF k <= 30 THEN <<Pow2(k) \div A, Pow2(k) % A>>
    ELSE The({ IF 2 * h[2] >= A THEN <<2 * h[1] + 1, 2 * h[2] - A>>
               ELSE <<2 * h[1], 2 * h[2]>>
               : h \in {QuotPow2(k - 1, A)} })

\* largest G in lo .. hi-1 with m * G^5 <= 2^s
RECURSIVE Root5In(_, _, _, _)
Root5In(m, s, lo, hi) ==
    IF hi - lo <= 1 THEN lo
    ELSE The({ IF G * G * G <= QuotPow2(s, m * G * G)[1]
               THEN Root5In(m, s, G, hi) ELSE Root5In(m, s, lo, G)
               : G \in {(lo + hi) \div 2} })

\* a ** (-0.2) of a finite a >= 0 as numpy's float64 power gives it:
\* +inf for a = 0, otherwise the fifth root of 1/a, correctly rounded
FPowMinusFifth(x) ==
    The({ IF a.m = 0 THEN PosInf
          ELSE LET E == a.e + Precision - 1
                   q == (-E) \div 5
                   b == (-E) % 5
                   s == 6 * Precision + 4 + b
               IN  The({ The({ Norm(2 * G + (IF h[1] = G * G * G /\ h[2] = 0
                                             THEN 0 ELSE 1),
                                    q - Precision - 2)
                               : h \in {QuotPow2(s, a.m * G * G)} })
                         : G \in {Root5In(a.m, s, Pow2(Precision),
                                          Pow2(Precision + 2))} })
          : a \in {x} })

\* Python's builtin max(a, b) and min(a, b): the first argument unless the
\* second compares strictly beyond it
PyMax(x, y) == The({ IF FLt(a, b) THEN b ELSE a : a \in {x}, b \in {y} })

PyMin(x, y) == The({ IF FLt(b, a) THEN b ELSE a : a \in {x}, b \in {y} })

\* the float a decimal literal p/q denotes
Lit(p, q) == FDiv(FromInt(p), FromInt(q))

(***************************************************************************)
(* Vectors (numpy arrays of shape (2,)) and arrays of shape (2, N), kept   *)
(* as sequences of columns                                                 *)
(***************************************************************************)
VAdd(x, y) ==
    The({ <<FAdd(u[1], v[1]), FAdd(u[2], v[2])>> : u \in {x}, v \in {y} })

VSub(x, y) ==
    The({ <<FSub(u[1], v[1]), FSub(u[2], v[2])>> : u \in {x}, v \in {y} })

VScale(x, y) ==
    The({ <<FMul(c, v[1]), FMul(c, v[2])>> : c \in {x}, v \in {y} })

VDiv(x, y) ==
    The({ <<FDiv(v[1], c), FDiv(v[2], c)>> : v \in {x}, c \in {y} })

VAbs(x) == The({ <<FAbs(v[1]), FAbs(v[2])>> : v \in {x} })

VZero == <<Zero, Zero>>

Vec(a, b) == <<a, b>>

\* np.zeros((2, N))
Zeros(N_) == [k \in 1 .. N_ |-> VZero]

(***************************************************************************)
(* src/RKtest.py: module constants                                         *)
(***************************************************************************)
p == <<<<FromInt(0), FromInt(-1)>>, <<FromInt(1), FromInt(0)>>>>

dt == Lit(2, 100)

n_skip == 10

e_stop == Lit(1, 100)

\* the vector field of the module: dx = -x2, dy = x1 (p is not read)
f(x, p_) == The({ Vec(FNeg(v[2]), v[1]) : v \in {x} })

\* The fields a caller may hand to rk4, rka and sim_rk4: the module's f, a
\* linear sink, a constant drift, and a field that is discontinuous at the
\* origin, (2^KinkExp, 0) there and (-2^KinkExp, 0) elsewhere: its two half
\* steps and its full step from the origin differ by a fixed share of the
\* step, however small the step.
KinkExp == 300

Fields == {"f", "sink", "drift", "kink"}

Apply(fld, x, p_) ==
    The({ CASE fld = "f"     -> f(v, p_)
            [] fld = "sink"  -> Vec(FNeg(v[1]), FNeg(v[2]))
            [] fld = "drift" -> Vec(FromInt(1), Zero)
            [] fld = "kink"  -> IF v = VZero THEN Vec(Norm(1, KinkExp), Zero)
                                ELSE Vec(Norm(-1, KinkExp), Zero)
          : v \in {x} })

\* lines 36-39: the four contributions
rk4_k1(r, dt_, fld, p_) == Apply(fld, r, p_)

rk4_k2(r, dt_, fld, p_, k1) ==
    Apply(fld, VAdd(r, VScale(FMul(Lit(1, 2), dt_), k1)), p_)

rk4_k3(r, dt_, fld, p_, k2) ==
    Apply(fld, VAdd(r, VScale(FMul(Lit(1, 2), dt_), k2)), p_)

rk4_k4(r, dt_, fld, p_, k3) == Apply(fld, VAdd(r, VScale(dt_, k3)), p_)

rk4(x, t, h, fld, p_) ==
    The({ The({ The({ The({ The({
        VAdd(r, VDiv(VScale(dt_,
                            VAdd(VAdd(VAdd(k1, VScale(FromInt(2), k2)),
                                      VScale(FromInt(2), k3)), k4)),
                     FromInt(6)))
        : k4 \in {rk4_k4(r, dt_, fld, p_, k3)} })
        : k3 \in {rk4_k3(r, dt_, fld, p_, k2)} })
        : k2 \in {rk4_k2(r, dt_, fld, p_, k1)} })
        : k1 \in {rk4_k1(r, dt_, fld, p_)} })
        : r \in {x}, dt_ \in {h} })

\* np.amin of a non-empty sequence of floats
RECURSIVE Amin(_)
Amin(x) ==
    The({ IF Len(a) = 1 THEN a[1]
          ELSE The({ IF FLt(rest, a[1]) THEN rest ELSE a[1]
                     : rest \in {Amin(Tail(a))} })
          : a \in {x} })

\* sqrt(sum((c - x)**2, axis=0)) of one column c of x_pre
ColDist(c, x) ==
    LET d == VSub(c, x)
    IN  FSqrt(FAdd(FMul(d[1], d[1]), FMul(d[2], d[2])))

get_dists(x, x_pre) ==
    The({ Amin([j \in 1 .. Len(pre) |-> ColDist(pre[j], cur)])
          : cur \in {x}, pre \in {x_pre} })

\* np.cumsum(np.zeros(N) + dt) - dt
RECURSIVE Cumsum(_, _)
Cumsum(N_, dt_) ==
    IF N_ = 0 THEN <<>>
    ELSE IF N_ = 1 THEN <<FAdd(Zero, dt_)>>
    ELSE The({ Append(c, FAdd(c[N_ - 1], dt_))
               : c \in {Cumsum(N_ - 1, dt_)} })

TimeVector(N_, dt_) ==
    The({ [k \in 1 .. N_ |-> FSub(c[k], dt_)] : c \in {Cumsum(N_, dt_)} })

\* python a[:k] of a numpy array: a slice is clipped, never out of range
PySlice(a, k) ==
    IF k >= 0 THEN SubSeq(a, 1, IF k < Len(a) THEN k ELSE Len(a))
    ELSE SubSeq(a, 1, IF Len(a) + k > 0 THEN Len(a) + k ELSE 0)

\* int(np.ceil(a)) of a finite float
FCeilInt(x) ==
    The({ IF a.e >= 0 THEN a.m * Pow2(a.e)
          ELSE IF -a.e > 30 THEN (IF a.m > 0 THEN 1 ELSE 0)
          ELSE -((-a.m) \div Pow2(-a.e))
          : a \in {x} })

\* lines 47-54 without the clamp of lines 51-52
get_plot_indices_unclamped(N_, n_) ==
    The({ [k \in 1 .. frames |-> k * n_ - 1]
          : frames \in {FCeilInt(FDiv(FromInt(N_), FromInt(n_)))} })

get_plot_indices(N_, n_) ==
    The({ LET id  == [k \in 1 .. frames |-> k * n_]
              id2 == IF id[frames] > N_ THEN [id EXCEPT ![frames] = N_]
                     ELSE id
          IN  [k \in 1 .. frames |-> id2[k] - 1]
          : frames \in {FCeilInt(FDiv(FromInt(N_), FromInt(n_)))} })

(***************************************************************************)
(* State.  Each function in progress has an activation record holding its  *)
(* locals under their source names; its pc field is the source line the    *)
(* function is at ("none": no activation).  Array indices in the records   *)
(* are python's (0-based): column n of x is x[n + 1] here.                 *)
(***************************************************************************)
VARIABLES
    N,                \* RKtest.N, the module-level point count
    main,             \* what the top-level caller (test driver, event loop) does
    events,           \* the mouse events delivered so far
    runs,             \* the sim_rk4 calls on_mouse has issued: [x0, dt, N, done]
    animators,        \* the Animator objects created, each with its next frame
    c_on_mouse,       \* activation of on_mouse
    c_sim_rk4,        \* activation of sim_rk4
    c_min_prec_dist,  \* activation of min_prec_dist
    c_rka,            \* activation of rka
    c_sim,            \* activation of iterative_maps.sim
    c_cobweb,         \* activation of generate_cobweb_points
    c_plot,           \* arguments and result of a get_plot_indices call
    sim_log           \* the iterative_maps.sim calls that have returned

vars == <<N, main, events, runs, animators, c_on_mouse, c_sim_rk4,
          c_min_prec_dist, c_rka, c_sim, c_cobweb, c_plot, sim_log>>

NoCall == [pc |-> "none"]

\* bounds of the model: MaxN stands for the module's N = 5000
MaxN == 6

MaxClicks == 3

MaxPts == 8

MaxSkip == 5

MaxMapN == 5

MaxCalls == 2

\* the inputs the test driver draws for sim_rk4
X0s == {Vec(Zero, Zero), Vec(FromInt(1), Zero), Vec(Lit(5, 100), Zero),
        Vec(Lit(2, 100), Lit(2, 100)), Vec(Lit(1, 10), Zero)}

Dts == {dt, Lit(1, 100), Lit(1, 2), Lit(157, 100)}

(***************************************************************************)
(* sim_rk4                                                                 *)
(***************************************************************************)
\* lines 92-95: the activation entering the loop; args keeps the arguments
\* as they were passed (the loop rebinds the local N)
sim_rk4_enter(fld, x0, dt_, N_, p_, caller) ==
    [pc |-> "98", caller |-> caller,
     args |-> [f |-> fld, x0 |-> x0, dt |-> dt_, N |-> N_],
     f |-> fld, x0 |-> x0, dt |-> dt_, N |-> N_, p |-> p_,
     x |-> [Zeros(N_) EXCEPT ![1] = x0],
     t |-> TimeVector(N_, dt_),
     n |-> 1, min_dist |-> <<>>, ret |-> <<>>]

\* line 104 with the comparison strict
StopTest_strict(min_dist) == FLt(min_dist, e_stop)

\* line 104: the stopping test
StopTest(min_dist) == FLe(min_dist, e_stop)

\* lines 98-106 with line 106 returning the arrays uncut
sim_rk4_body_uncut(c) ==
    The({ The({ IF StopTest(min_dist)
                THEN [c EXCEPT !.x = x, !.min_dist = Append(@, min_dist),
                               !.N = c.n + 1, !.ret = <<x, c.t>>,
                               !.pc = "106"]
                ELSE [c EXCEPT !.x = x, !.min_dist = Append(@, min_dist),
                               !.n = c.n + 1]
                : min_dist \in {get_dists(x[c.n + 1], PySlice(x, c.n))} })
          : x \in {[c.x EXCEPT
                      ![c.n + 1] = rk4(c.x[c.n], c.t[c.n], c.dt, c.f, c.p)]} })

\* lines 98-106: one iteration of the loop, returning from inside it when the
\* new point closes on the earlier ones.  min_dist holds every value the
\* local min_dist has taken, the current one last.
sim_rk4_body(c) ==
    The({ The({ IF StopTest(min_dist)
                THEN [c EXCEPT !.x = x, !.min_dist = Append(@, min_dist),
                               !.N = c.n + 1,
                               !.ret = <<PySlice(x, c.n + 1),
                                         PySlice(c.t, c.n + 1)>>,
                               !.pc = "106"]
                ELSE [c EXCEPT !.x = x, !.min_dist = Append(@, min_dist),
                               !.n = c.n + 1]
                : min_dist \in {get_dists(x[c.n + 1], PySlice(x, c.n))} })
          : x \in {[c.x EXCEPT
                      ![c.n + 1] = rk4(c.x[c.n], c.t[c.n], c.dt, c.f, c.p)]} })

sim_rk4_step ==
    /\ c_sim_rk4.pc = "98"
    /\ c_sim_rk4.n < c_sim_rk4.N
    /\ c_sim_rk4' = sim_rk4_body(c_sim_rk4)
    /\ UNCHANGED <<N, main, events, runs, animators, c_on_mouse,
                   c_min_prec_dist, c_rka, c_sim, c_cobweb, c_plot,
                   sim_log>>

\* line 107: range(1, N) is exhausted
sim_rk4_exhaust ==
    /\ c_sim_rk4.pc = "98"
    /\ c_sim_rk4.n >= c_sim_rk4.N
    /\ c_sim_rk4' = [c_sim_rk4 EXCEPT !.ret = <<c_sim_rk4.x, c_sim_rk4.t>>,
                                      !.pc = "107"]
    /\ UNCHANGED <<N, main, events, runs, animators, c_on_mouse,
                   c_min_prec_dist, c_rka, c_sim, c_cobweb, c_plot,
                   sim_log>>

sim_rk4_returned == c_sim_rk4.pc \in {"106", "107"}

(***************************************************************************)
(* min_prec_dist                                                           *)
(***************************************************************************)
\* lines 116-117
min_prec_dist_enter(x) ==
    [pc |-> "118", x |-> x, N |-> Len(x),
     min_dist |-> [k \in 1 .. Len(x) |-> Zero], n |-> 1, ret |-> <<>>]

\* lines 118-120 with the prefix taken one column too long
min_prec_dist_body_incl(c) ==
    LET x_pre == PySlice(c.x, c.n + 1)
    IN  [c EXCEPT !.min_dist[c.n + 1] = get_dists(c.x[c.n + 1], x_pre),
                  !.n = c.n + 1]

\* lines 118-120: one iteration
min_prec_dist_body(c) ==
    LET x_pre == PySlice(c.x, c.n)
    IN  [c EXCEPT !.min_dist[c.n + 1] = get_dists(c.x[c.n + 1], x_pre),
                  !.n = c.n + 1]

min_prec_dist_step ==
    /\ c_min_prec_dist.pc = "118"
    /\ c_min_prec_dist.n < c_min_prec_dist.N
    /\ c_min_prec_dist' = min_prec_dist_body(c_min_prec_dist)
    /\ UNCHANGED <<N, main, events, runs, animators, c_on_mouse, c_sim_rk4,
                   c_rka, c_sim, c_cobweb, c_plot,
                   sim_log>>

\* line 121
min_prec_dist_return ==
    /\ c_min_prec_dist.pc = "118"
    /\ c_min_prec_dist.n >= c_min_prec_dist.N
    /\ c_min_prec_dist' = [c_min_prec_dist EXCEPT
                              !.ret = c_min_prec_dist.min_dist, !.pc = "121"]
    /\ main' = "done"
    /\ UNCHANGED <<N, events, runs, animators, c_on_mouse, c_sim_rk4,
                   c_rka, c_sim, c_cobweb, c_plot,
                   sim_log>>

(***************************************************************************)
(* rka                                                                     *)
(***************************************************************************)
safe1 == Lit(9, 10)

safe2 == FromInt(4)

maxTry == 100

\* np.finfo(float).eps: the gap between 1 and the next float
eps == Norm(1, 1 - Precision)

\* np.max of a vector
NpMax(x) == The({ IF FLt(v[1], v[2]) THEN v[2] ELSE v[1] : v \in {x} })

\* lines 60-65
rka_enter(x, t, dt_, err, fld, p_) ==
    [pc |-> "66",
     args |-> [x |-> x, t |-> t, dt |-> dt_, err |-> err, f |-> fld],
     x |-> x, t |-> t, dt |-> dt_, err |-> err, f |-> fld, p |-> p_,
     tSave |-> t, xSave |-> x, i |-> 0,
     xSmall |-> VZero, xBig |-> VZero, errorRatio |-> Zero, dt_old |-> dt_,
     ret |-> <<>>]

\* lines 67-73: the two half steps and the full step of one attempt
rka_xSmall(c) ==
    The({ LET xTemp == rk4(c.xSave, c.tSave, half_dt, c.f, c.p)
              t     == FAdd(c.tSave, half_dt)
          IN  rk4(xTemp, t, half_dt, c.f, c.p)
          : half_dt \in {FDiv(c.dt, FromInt(2))} })

rka_xBig(c) == rk4(c.xSave, c.tSave, c.dt, c.f, c.p)

\* lines 75-77
rka_errorRatio(err, xSmall, xBig) ==
    The({ NpMax(<<FDiv(FAbs(xDiff[1]), FAdd(scale[1], eps)),
                  FDiv(FAbs(xDiff[2]), FAdd(scale[2], eps))>>)
          : scale \in {VDiv(VScale(err, VAdd(VAbs(xSmall), VAbs(xBig))),
                            FromInt(2))},
            xDiff \in {VSub(xSmall, xBig)} })

\* lines 79-82 without the lower clamp of line 81
rka_new_dt_unclamped(dt_old, errorRatio) ==
    LET d1 == FMul(FMul(safe1, dt_old), FPowMinusFifth(errorRatio))
    IN  PyMin(d1, FMul(safe2, dt_old))

\* lines 79-82: the step size proposed after an attempt
rka_new_dt(dt_old, errorRatio) ==
    LET d1 == FMul(FMul(safe1, dt_old), FPowMinusFifth(errorRatio))
        d2 == PyMax(d1, FDiv(dt_old, safe2))
    IN  PyMin(d2, FMul(safe2, dt_old))

\* line 84: the acceptance test
rka_accepts(errorRatio) == FLt(errorRatio, FromInt(1))

\* line 85 returning the full-step result
rka_result_big(xSmall, xBig, t, dt_) == <<xBig, t, dt_>>

\* line 85: the value returned by an accepted attempt
rka_result(xSmall, xBig, t, dt_) == <<xSmall, t, dt_>>

\* lines 66-85: one pass of the loop
rka_body(c) ==
    The({ The({ The({
        LET t      == FAdd(c.tSave, c.dt)
            dt_old == c.dt
            c2     == [c EXCEPT !.t = t, !.xSmall = xSmall, !.xBig = xBig,
                                !.errorRatio = errorRatio,
                                !.dt_old = dt_old, !.dt = dt_new,
                                !.i = c.i + 1]
        IN  IF rka_accepts(errorRatio)
            THEN [c2 EXCEPT !.ret = rka_result(xSmall, xBig, t, dt_new),
                            !.pc = "85"]
            ELSE c2
        : dt_new \in {rka_new_dt(c.dt, errorRatio)} })
        : errorRatio \in {rka_errorRatio(c.err, xSmall, xBig)} })
        : xSmall \in {rka_xSmall(c)}, xBig \in {rka_xBig(c)} })

rka_attempt ==
    /\ c_rka.pc = "66"
    /\ c_rka.i < maxTry
    /\ c_rka' = rka_body(c_rka)
    /\ UNCHANGED <<N, main, events, runs, animators, c_on_mouse, c_sim_rk4,
                   c_min_prec_dist, c_sim, c_cobweb, c_plot,
                   sim_log>>

\* line 87 replaced by a return of the last attempt's result
rka_raise_swallow ==
    /\ c_rka.pc = "66"
    /\ c_rka.i >= maxTry
    /\ c_rka' = [c_rka EXCEPT !.ret = <<c_rka.xSmall, c_rka.t, c_rka.dt>>,
                              !.pc = "85"]
    /\ UNCHANGED <<N, main, events, runs, animators, c_on_mouse, c_sim_rk4,
                   c_min_prec_dist, c_sim, c_cobweb, c_plot,
                   sim_log>>

\* line 87: range(maxTry) is exhausted
rka_raise ==
    /\ c_rka.pc = "66"
    /\ c_rka.i >= maxTry
    /\ c_rka' = [c_rka EXCEPT !.pc = "87"]
    /\ UNCHANGED <<N, main, events, runs, animators, c_on_mouse, c_sim_rk4,
                   c_min_prec_dist, c_sim, c_cobweb, c_plot,
                   sim_log>>

\* the inputs the test driver draws for rka
RkaXs == {Vec(Zero, Zero), Vec(FromInt(1), Zero), Vec(Lit(1, 4), FromInt(-1))}

RkaTs == {Zero, FromInt(1)}

RkaDts == {dt, Lit(1, 2), FromInt(2)}

RkaErrs == {Lit(1, 10000), Lit(5, 100), FromInt(1)}

test_rka ==
    /\ main = "idle"
    /\ \E fld \in Fields, x \in RkaXs, t \in RkaTs, dt_ \in RkaDts,
          err \in RkaErrs :
          c_rka' = rka_enter(x, t, dt_, err, fld, p)
    /\ main' = "rka"
    /\ UNCHANGED <<N, events, runs, animators, c_on_mouse, c_sim_rk4,
                   c_min_prec_dist, c_sim, c_cobweb, c_plot,
                   sim_log>>

(***************************************************************************)
(* Animator, on_mouse and the event loop of main.  The GUI event loop runs *)
(* one callback at a time: a button_press_event handler or a frame of a    *)
(* FuncAnimation starts only while no handler is running (main = "idle").  *)
(* Events carry data coordinates: the click is inside the axes.            *)
(***************************************************************************)
\* lines 126-137; next is the frame number FuncAnimation passes next, line
\* and plotted what lines 154 and 152 have drawn
Animator(x, ids) ==
    [x |-> x, N |-> Len(x), frames |-> Len(ids), ids |-> ids,
     next |-> 0, line |-> <<>>, plotted |-> <<>>]

\* lines 145-155: Animator.__call__(i)
Animator_call(A, i) ==
    LET id == A.ids[i + 1]
    IN  [A EXCEPT !.plotted = IF i = A.frames - 1 THEN A.x ELSE @,
                  !.line = PySlice(A.x, id),
                  !.next = i + 1]

\* lines 180-183: FuncAnimation calls A(i) for i = 0 .. frames-1, once each
\* (repeat=False)
FuncAnimation_step ==
    /\ main = "idle"
    /\ \E k \in 1 .. Len(animators) :
          /\ animators[k].next < animators[k].frames
          /\ animators' = [animators EXCEPT
                              ![k] = Animator_call(@, animators[k].next)]
    /\ UNCHANGED <<N, main, events, runs, c_on_mouse, c_sim_rk4,
                   c_min_prec_dist, c_rka, c_sim, c_cobweb, c_plot, sim_log>>

Buttons == {1, 3}

ClickXs == {Vec(Zero, Zero), Vec(Lit(5, 100), Zero), Vec(FromInt(1), Zero)}

\* lines 158-169: on_mouse up to its call of sim_rk4; N_ is the value the
\* default N=N took when the function was defined
on_mouse_enter(event, n_skip_, N_) ==
    IF event.button # 1
    THEN [pc |-> "163", event |-> event]
    ELSE [pc |-> "169", event |-> event, n_skip |-> n_skip_, N |-> N_,
          x0 |-> Vec(event.xdata, event.ydata), x |-> <<>>, ids |-> <<>>]

\* lines 194-196: the event loop delivers a click to the handler main
\* connected, which runs as far as the call of sim_rk4 on line 169
button_press_event ==
    /\ main = "idle"
    /\ Len(events) < MaxClicks
    /\ \E b \in Buttons, xy \in ClickXs :
          LET event == [button |-> b, xdata |-> xy[1], ydata |-> xy[2]]
              c     == on_mouse_enter(event, n_skip, N)
          IN  /\ events' = Append(events, event)
              /\ c_on_mouse' = c
              /\ IF c.pc = "169"
                 THEN /\ c_sim_rk4' = sim_rk4_enter("f", c.x0, dt, c.N, p,
                                                    "on_mouse")
                      /\ runs' = Append(runs,
                                        [event |-> Len(events) + 1,
                                         args  |-> c_sim_rk4'.args,
                                         done  |-> FALSE, L |-> 0])
                      /\ main' = "on_mouse"
                 ELSE UNCHANGED <<c_sim_rk4, runs, main>>
    /\ UNCHANGED <<N, animators, c_min_prec_dist, c_rka, c_sim, c_cobweb,
                   c_plot, sim_log>>

\* lines 169-186 with line 171 assigning the module's N
on_mouse_resume_rebind ==
    /\ main = "on_mouse"
    /\ c_on_mouse.pc = "169"
    /\ sim_rk4_returned
    /\ LET x   == c_sim_rk4.ret[1]
           N_  == Len(x)
           ids == get_plot_indices(N_, c_on_mouse.n_skip)
       IN  /\ c_on_mouse' = [c_on_mouse EXCEPT !.x = x, !.N = N_,
                                               !.ids = ids, !.pc = "186"]
           /\ N' = N_
           /\ animators' = Append(animators, Animator(x, ids))
           /\ runs' = [runs EXCEPT ![Len(runs)].done = TRUE,
                                   ![Len(runs)].L = N_]
    /\ main' = "idle"
    /\ UNCHANGED <<events, c_sim_rk4, c_min_prec_dist, c_rka, c_sim,
                   c_cobweb, c_plot, sim_log>>

\* lines 169-186: sim_rk4 has returned; on_mouse rebinds its local N, builds
\* the frame indices and the Animator, starts the animation and returns
on_mouse_resume ==
    /\ main = "on_mouse"
    /\ c_on_mouse.pc = "169"
    /\ sim_rk4_returned
    /\ LET x   == c_sim_rk4.ret[1]
           N_  == Len(x)
           ids == get_plot_indices(N_, c_on_mouse.n_skip)
       IN  /\ c_on_mouse' = [c_on_mouse EXCEPT !.x = x, !.N = N_,
                                               !.ids = ids, !.pc = "186"]
           /\ animators' = Append(animators, Animator(x, ids))
           /\ runs' = [runs EXCEPT ![Len(runs)].done = TRUE,
                                   ![Len(runs)].L = N_]
    /\ main' = "idle"
    /\ UNCHANGED <<N, events, c_sim_rk4, c_min_prec_dist, c_rka, c_sim,
                   c_cobweb, c_plot, sim_log>>

(***************************************************************************)
(* Test driver of get_plot_indices and Animator: one call of               *)
(* get_plot_indices on drawn arguments, then an Animator over a trajectory *)
(* of that many points, animated frame by frame                            *)
(***************************************************************************)
\* a trajectory of N_ distinct points
TestTrajectory(N_) == [k \in 1 .. N_ |-> Vec(FromInt(k - 1), Zero)]

test_get_plot_indices ==
    /\ main = "idle"
    /\ animators = <<>>
    /\ \E N_ \in 1 .. MaxPts, n_ \in 1 .. MaxSkip :
          c_plot' = [pc |-> "54", N |-> N_, n |-> n_,
                     ret |-> get_plot_indices(N_, n_)]
    /\ main' = "plot"
    /\ UNCHANGED <<N, events, runs, animators, c_on_mouse, c_sim_rk4,
                   c_min_prec_dist, c_rka, c_sim, c_cobweb, sim_log>>

test_Animator ==
    /\ main = "plot"
    /\ animators' = <<Animator(TestTrajectory(c_plot.N), c_plot.ret)>>
    /\ main' = "idle"
    /\ UNCHANGED <<N, events, runs, c_on_mouse, c_sim_rk4, c_min_prec_dist,
                   c_rka, c_sim, c_cobweb, c_plot, sim_log>>

(***************************************************************************)
(* src/iterative_maps.py: sim and generate_cobweb_points, driven as cobweb *)
(* drives them (lines 57-58)                                               *)
(***************************************************************************)
\* lines 10-13: the logistic map, r*x*(1-x) evaluated left to right
maps_f(x) ==
    The({ LET r == Lit(31, 10)
          IN  FMul(FMul(r, v), FSub(FromInt(1), v))
          : v \in {x} })

\* The maps a caller may hand to sim: the module's f and a halving map
Maps == {"f", "halve"}

MapApply(g, x) ==
    CASE g = "f"     -> maps_f(x)
      [] g = "halve" -> FDiv(x, FromInt(2))

\* lines 20-21: the activation entering the loop; f_calls counts the
\* applications of f
sim_enter(x0, g, N_) ==
    [pc |-> "22", args |-> [x0 |-> x0, f |-> g, N |-> N_],
     f |-> g, N |-> N_,
     x |-> [[k \in 1 .. N_ |-> Zero] EXCEPT ![1] = x0],
     i |-> 1, f_calls |-> 0, ret |-> <<>>]

\* line 23 reading the entry being written instead of the one before it
sim_body_self(c) ==
    [c EXCEPT !.x[c.i + 1] = MapApply(c.f, c.x[c.i + 1]),
              !.f_calls = @ + 1, !.i = @ + 1]

\* lines 22-23: one iteration
sim_body(c) ==
    [c EXCEPT !.x[c.i + 1] = MapApply(c.f, c.x[c.i]),
              !.f_calls = @ + 1, !.i = @ + 1]

sim_step ==
    /\ c_sim.pc = "22"
    /\ c_sim.i < c_sim.N
    /\ c_sim' = sim_body(c_sim)
    /\ UNCHANGED <<N, main, events, runs, animators, c_on_mouse, c_sim_rk4,
                   c_min_prec_dist, c_rka, c_cobweb, c_plot, sim_log>>

\* line 25
sim_return ==
    /\ c_sim.pc = "22"
    /\ c_sim.i >= c_sim.N
    /\ c_sim' = [c_sim EXCEPT !.ret = c_sim.x, !.pc = "25"]
    /\ sim_log' = Append(sim_log, [args |-> c_sim.args, ret |-> c_sim.x,
                                   f_calls |-> c_sim.f_calls])
    /\ UNCHANGED <<N, main, events, runs, animators, c_on_mouse, c_sim_rk4,
                   c_min_prec_dist, c_rka, c_cobweb, c_plot>>

\* python row[start::step] = v for a row and a sequence v that fits the slice
SetSlice(row, start, step, v) ==
    [k \in 1 .. Len(row) |->
        IF k - 1 >= start /\ (k - 1 - start) % step = 0
        THEN v[((k - 1 - start) \div step) + 1]
        ELSE row[k]]

\* lines 33-46 with the y-values not shifted (x[:-1] for x[1:] on line 43)
generate_cobweb_points_unshifted(x) ==
    LET zeros == [k \in 1 .. 2 * Len(x) - 1 |-> Zero]
        row0a == SetSlice(zeros, 0, 2, x)
        row0  == SetSlice(row0a, 1, 2, PySlice(x, -1))
        row1a == SetSlice(zeros, 1, 2, PySlice(x, -1))
        row1  == SetSlice(row1a, 2, 2, Tail(x))
    IN  <<row0, row1>>

\* lines 33-46: the two rows of points, each filled by two slice assignments
generate_cobweb_points(x) ==
    LET zeros == [k \in 1 .. 2 * Len(x) - 1 |-> Zero]
        row0a == SetSlice(zeros, 0, 2, x)
        row0  == SetSlice(row0a, 1, 2, PySlice(x, -1))
        row1a == SetSlice(zeros, 1, 2, Tail(x))
        row1  == SetSlice(row1a, 2, 2, Tail(x))
    IN  <<row0, row1>>

\* the initial values the driver draws: the module's x0 = 0.1 among them
MapX0s == {Lit(1, 10), Lit(1, 2)}

\* line 57: cobweb calls sim
test_sim ==
    /\ main = "idle"
    /\ Len(sim_log) < MaxCalls
    /\ \E x0 \in MapX0s, g \in Maps, N_ \in 1 .. MaxMapN :
          c_sim' = sim_enter(x0, g, N_)
    /\ main' = "sim"
    /\ UNCHANGED <<N, events, runs, animators, c_on_mouse, c_sim_rk4,
                   c_min_prec_dist, c_rka, c_cobweb, c_plot, sim_log>>

\* line 58: cobweb calls generate_cobweb_points on what sim returned
test_generate_cobweb_points ==
    /\ main = "sim"
    /\ c_sim.pc = "25"
    /\ c_cobweb' = [pc |-> "58", x |-> c_sim.ret,
                    points |-> generate_cobweb_points(c_sim.ret)]
    /\ main' = "idle"
    /\ UNCHANGED <<N, events, runs, animators, c_on_mouse, c_sim_rk4,
                   c_min_prec_dist, c_rka, c_sim, c_plot, sim_log>>

(***************************************************************************)
(* Test driver of sim_rk4 and min_prec_dist: one call of sim_rk4 on drawn  *)
(* arguments, then min_prec_dist on the trajectory it returned             *)
(***************************************************************************)
test_sim_rk4 ==
    /\ main = "idle"
    /\ \E fld \in Fields \ {"kink"}, x0 \in X0s, dt_ \in Dts, N_ \in 1 .. MaxN :
          c_sim_rk4' = sim_rk4_enter(fld, x0, dt_, N_, p, "test")
    /\ main' = "sim_rk4"
    /\ UNCHANGED <<N, events, runs, animators, c_on_mouse, c_min_prec_dist,
                   c_rka, c_sim, c_cobweb, c_plot,
                   sim_log>>

test_min_prec_dist ==
    /\ main = "sim_rk4"
    /\ sim_rk4_returned
    /\ c_min_prec_dist' = min_prec_dist_enter(c_sim_rk4.ret[1])
    /\ main' = "min_prec_dist"
    /\ UNCHANGED <<N, events, runs, animators, c_on_mouse, c_sim_rk4,
                   c_rka, c_sim, c_cobweb, c_plot,
                   sim_log>>

Init ==
    /\ N = MaxN
    /\ main = "idle"
    /\ events = <<>>
    /\ runs = <<>>
    /\ animators = <<>>
    /\ c_on_mouse = NoCall
    /\ c_sim_rk4 = NoCall
    /\ c_min_prec_dist = NoCall
    /\ c_rka = NoCall
    /\ c_sim = NoCall
    /\ c_cobweb = NoCall
    /\ c_plot = NoCall
    /\ sim_log = <<>>

Next ==
    \/ test_sim_rk4
    \/ sim_rk4_step
    \/ sim_rk4_exhaust
    \/ test_min_prec_dist
    \/ min_prec_dist_step
    \/ min_prec_dist_return

Spec == Init /\ [][Next]_vars

NextRka == test_rka \/ rka_attempt \/ rka_raise

SpecRka == Init /\ [][NextRka]_vars

NextUI ==
    \/ button_press_event
    \/ sim_rk4_step
    \/ sim_rk4_exhaust
    \/ on_mouse_resume
    \/ FuncAnimation_step

SpecUI == Init /\ [][NextUI]_vars

NextFrames == test_get_plot_indices \/ test_Animator \/ FuncAnimation_step

SpecFrames == Init /\ [][NextFrames]_vars

NextMaps ==
    \/ test_sim
    \/ sim_step
    \/ sim_return
    \/ test_generate_cobweb_points

SpecMaps == Init /\ [][NextMaps]_vars

(***************************************************************************)
(* Properties of sim_rk4 and min_prec_dist (under Spec)                    *)
(***************************************************************************)
\* column n (0-based) of X lies within e_stop of some earlier column
Closes(X, n) == \E j \in 1 .. n : FLe(ColDist(X[j], X[n + 1]), e_stop)

\* d is the least Euclidean distance from column n (0-based) of X to the
\* columns before it
IsMinDistance(d, X, n) ==
    /\ \E j \in 1 .. n : d = ColDist(X[j], X[n + 1])
    /\ \A j \in 1 .. n : FLe(d, ColDist(X[j], X[n + 1]))

C2_AsStated ==
    sim_rk4_returned =>
        LET L == Len(c_sim_rk4.ret[1])
        IN  /\ L <= c_sim_rk4.args.N
            /\ L < c_sim_rk4.args.N <=> c_sim_rk4.pc = "106"

\* C2 amended: L <= N; L < N exactly when the stopping test fired at an
\* index n < N-1; a run whose test fires at the last index n = N-1 returns
\* the full length N
C2_Amended ==
    sim_rk4_returned =>
        LET L == Len(c_sim_rk4.ret[1])
            a == c_sim_rk4.args
        IN  /\ L <= a.N
            /\ L < a.N <=> (c_sim_rk4.pc = "106" /\ c_sim_rk4.n < a.N - 1)
            /\ (c_sim_rk4.pc = "106" /\ c_sim_rk4.n = a.N - 1) => L = a.N
            /\ c_sim_rk4.pc = "106" => L = c_sim_rk4.n + 1

\* C2 witness: the test fires at the last index of a run of N >= 3 points
C2_Witness ==
    /\ c_sim_rk4.pc = "106"
    /\ c_sim_rk4.args.N >= 3
    /\ c_sim_rk4.n = c_sim_rk4.args.N - 1

\* C8: min_prec_dist returns an array as long as the trajectory, zero at
\* index 0, whose entry at each n >= 1 is the least Euclidean distance from
\* x[n] to the points before it and is the value sim_rk4 computed in its
\* loop at step n
C8_BatchAgreesWithLoop ==
    c_min_prec_dist.pc = "121" =>
        LET X == c_min_prec_dist.x
            r == c_min_prec_dist.ret
        IN  /\ X = c_sim_rk4.ret[1]
            /\ Len(r) = Len(X)
            /\ r[1] = Zero
            /\ \A n \in 1 .. Len(X) - 1 :
                  /\ IsMinDistance(r[n + 1], X, n)
                  /\ r[n + 1] = c_sim_rk4.min_dist[n]

\* C8 witness: a profile of at least four points with an entry that is
\* strictly below the distance to the point just before it
C8_Witness ==
    /\ c_min_prec_dist.pc = "121"
    /\ Len(c_min_prec_dist.ret) >= 4
    /\ \E n \in 2 .. Len(c_min_prec_dist.ret) - 1 :
          FLt(c_min_prec_dist.ret[n + 1],
              ColDist(c_min_prec_dist.x[n], c_min_prec_dist.x[n + 1]))
(***************************************************************************)
(* Properties of rka (under SpecRka)                                       *)
(***************************************************************************)
\* the activation of an attempt made from the call's own arguments with
\* step size d
FromArgs(d) ==
    [xSave |-> c_rka.args.x, tSave |-> c_rka.args.t, dt |-> d,
     f |-> c_rka.args.f, p |-> p]

C3_Safety ==
    c_rka.pc # "none" =>
        /\ c_rka.i <= maxTry
        /\ c_rka.pc = "66" =>
              /\ c_rka.ret = <<>>
              /\ c_rka.i >= 1 => ~FLt(c_rka.errorRatio, FromInt(1))
        /\ c_rka.pc = "87" =>
              /\ c_rka.i = maxTry
              /\ c_rka.ret = <<>>
              /\ ~FLt(c_rka.errorRatio, FromInt(1))
        /\ c_rka.pc = "85" =>
              /\ c_rka.i >= 1
              /\ FLt(c_rka.errorRatio, FromInt(1))
              /\ c_rka.ret # <<>>

\* C3: rka makes at most maxTry = 100 attempts; while it is in the loop no
\* attempt so far had errorRatio < 1 and nothing has been returned; it
\* raises (line 87) only after 100 attempts, all rejected, and then returns
\* no result; it returns only on an attempt with errorRatio < 1; and every
\* call ends, by that return or by the raise: a step of a call in the loop
\* is either the raise, taken at exactly 100 attempts, or one more attempt,
\* so the call is over after 101 steps at most.
C3_RaisesAfterMaxTry ==
    /\ []C3_Safety
    /\ [][c_rka.pc = "66" =>
            \/ c_rka'.pc = "87" /\ c_rka.i = maxTry /\ c_rka'.i = c_rka.i
            \/ c_rka'.pc \in {"66", "85"} /\ c_rka'.i = c_rka.i + 1]_vars

\* C3 witness: the raise, after 100 rejected attempts
C3_Witness ==
    /\ c_rka.pc = "87"
    /\ c_rka.i = maxTry
    /\ FLe(FromInt(1), c_rka.errorRatio)

\* C4: the saved state and time stay the call's x and t; an attempt is
\* accepted exactly when its errorRatio is below 1, so the call is still in
\* the loop only while every attempt was rejected; an accepted attempt
\* returns the two-half-step result from (x, t) at the step size dt_old it
\* used, the time t + dt_old and the newly proposed step size; a rejected
\* attempt leaves the newly proposed step size as the size of the next
\* attempt, which the next attempt uses.
C4_AcceptReturnsXSmall ==
    /\ [](c_rka.pc # "none" =>
            /\ c_rka.xSave = c_rka.args.x
            /\ c_rka.tSave = c_rka.args.t
            /\ c_rka.i = 0 => c_rka.dt = c_rka.args.dt
            /\ c_rka.i >= 1 =>
                  /\ c_rka.xSmall = rka_xSmall(FromArgs(c_rka.dt_old))
                  /\ c_rka.xBig = rka_xBig(FromArgs(c_rka.dt_old))
                  /\ c_rka.errorRatio =
                        rka_errorRatio(c_rka.args.err, c_rka.xSmall, c_rka.xBig)
                  /\ c_rka.dt = rka_new_dt(c_rka.dt_old, c_rka.errorRatio)
                  /\ c_rka.pc = "85" <=> FLt(c_rka.errorRatio, FromInt(1))
            /\ c_rka.pc = "85" =>
                  c_rka.ret = <<rka_xSmall(FromArgs(c_rka.dt_old)),
                                FAdd(c_rka.args.t, c_rka.dt_old),
                                c_rka.dt>>)
    /\ [][c_rka.pc = "66" /\ c_rka'.pc # "87" => c_rka'.dt_old = c_rka.dt]_vars

\* C4 witness: an attempt accepted after a rejected one, from t # 0, whose
\* two-half-step and full-step results differ
C4_Witness ==
    /\ c_rka.pc = "85"
    /\ c_rka.i >= 2
    /\ c_rka.args.t # Zero
    /\ c_rka.xSmall # c_rka.xBig

\* C5: after every attempt the new step size is finite and positive and
\* lies between a quarter of and four times the step size the attempt used;
\* an accepted attempt returns such a step size, with the time advanced by
\* the step size it used.
C5_StepSizeBounds ==
    (c_rka.pc # "none" /\ c_rka.i >= 1) =>
        /\ ~c_rka.dt.inf
        /\ FLt(Zero, c_rka.dt)
        /\ FLe(FDiv(c_rka.dt_old, FromInt(4)), c_rka.dt)
        /\ FLe(c_rka.dt, FMul(FromInt(4), c_rka.dt_old))
        /\ c_rka.pc = "85" =>
              /\ c_rka.ret[3] = c_rka.dt
              /\ c_rka.ret[2] = FAdd(c_rka.args.t, c_rka.dt_old)

\* C5 witness: a rejected attempt whose proposal was raised to a quarter of
\* the step size, after an earlier attempt
C5_Witness ==
    /\ c_rka.pc = "66"
    /\ c_rka.i >= 2
    /\ c_rka.dt = FDiv(c_rka.dt_old, FromInt(4))
    /\ FLt(FMul(FMul(safe1, c_rka.dt_old), FPowMinusFifth(c_rka.errorRatio)),
           c_rka.dt)
(***************************************************************************)
(* Properties of on_mouse and the event loop (under SpecUI)                *)
(***************************************************************************)
\* the positions in events of the left-button clicks among the first k
RECURSIVE LeftClicks(_)
LeftClicks(k) ==
    IF k = 0 THEN <<>>
    ELSE IF events[k].button = 1 THEN Append(LeftClicks(k - 1), k)
    ELSE LeftClicks(k - 1)

C9_State ==
    LET left == LeftClicks(Len(events))
    IN  /\ N = MaxN
        /\ Len(runs) = Len(left)
        /\ \A k \in 1 .. Len(runs) :
              /\ runs[k].event = left[k]
              /\ runs[k].args =
                    [f |-> "f", dt |-> dt, N |-> MaxN,
                     x0 |-> Vec(events[left[k]].xdata, events[left[k]].ydata)]
              /\ k < Len(runs) => runs[k].done
              /\ runs[k].done => runs[k].L \in 1 .. MaxN
        /\ main = "on_mouse" <=> (runs # <<>> /\ ~runs[Len(runs)].done)
        /\ c_sim_rk4.pc = "98" =>
              /\ main = "on_mouse"
              /\ c_sim_rk4.args = runs[Len(runs)].args
        /\ Len(animators) = Cardinality({k \in 1 .. Len(runs) : runs[k].done})
        /\ \A k \in 1 .. Len(animators) :
              /\ runs[k].done
              /\ animators[k].N = runs[k].L
              /\ animators[k].x[1] = runs[k].args.x0

CeilDiv(a, b) == (a + b - 1) \div b

\* C10: get_plot_indices(N, n) with N >= 1 and n >= 1 returns ceil(N/n)
\* indices, strictly increasing, each in 0 .. N-1, the last one N-1; an
\* Animator over N points given these indices reads, at each frame it is
\* called for, an index that is in bounds, shows the points before that
\* index, and on its last frame plots the whole trajectory.
C10_FrameIndicesInBounds ==
    /\ c_plot.pc = "54" =>
          LET ids == c_plot.ret
          IN  /\ Len(ids) = CeilDiv(c_plot.N, c_plot.n)
              /\ \A k \in 1 .. Len(ids) - 1 : ids[k] < ids[k + 1]
              /\ \A k \in 1 .. Len(ids) : ids[k] \in 0 .. c_plot.N - 1
              /\ ids[Len(ids)] = c_plot.N - 1
    /\ \A k \in 1 .. Len(animators) :
          LET A == animators[k]
          IN  /\ A.next \in 0 .. A.frames
              /\ A.next >= 1 =>
                    /\ A.ids[A.next] \in 0 .. A.N - 1
                    /\ A.line = SubSeq(A.x, 1, A.ids[A.next])
              /\ A.next = A.frames <=> A.plotted = A.x

\* C10 witness: more points than n, n not dividing N, so the last index was
\* cut back to N-1, and the animation has shown its last frame
C10_Witness ==
    /\ c_plot.pc = "54"
    /\ c_plot.N > c_plot.n
    /\ c_plot.N % c_plot.n # 0
    /\ Len(c_plot.ret) >= 3
    /\ Len(animators) = 1
    /\ animators[1].next = animators[1].frames
    /\ animators[1].ids = c_plot.ret
(***************************************************************************)
(* Properties of iterative_maps (under SpecMaps)                           *)
(***************************************************************************)
\* C6: generate_cobweb_points(x) for x of length n >= 1 returns two rows of
\* length 2n-1; with 0-based output indices, the x-row holds x[i] at 2i for
\* every i in 0 .. n-1 and at 2i+1 for every i in 0 .. n-2; the y-row holds
\* x[i+1] at 2i+1 and at 2i+2 for every i in 0 .. n-2, and zero at 0; for
\* n = 1 the result is the single point (x[0], 0).
C6_CobwebPoints ==
    c_cobweb.pc = "58" =>
        LET x  == c_cobweb.x
            n  == Len(x)
            px == c_cobweb.points[1]
            py == c_cobweb.points[2]
        IN  /\ n >= 1
            /\ Len(c_cobweb.points) = 2
            /\ Len(px) = 2 * n - 1 /\ Len(py) = 2 * n - 1
            /\ \A i \in 0 .. n - 1 : px[2 * i + 1] = x[i + 1]
            /\ \A i \in 0 .. n - 2 :
                  /\ px[2 * i + 2] = x[i + 1]
                  /\ py[2 * i + 2] = x[i + 2]
                  /\ py[2 * i + 3] = x[i + 2]
            /\ py[1] = Zero
            /\ n = 1 => c_cobweb.points = <<<<x[1]>>, <<Zero>>>>

\* C6 witness: points of a sequence of at least three values, no two
\* neighbours equal
C6_Witness ==
    /\ c_cobweb.pc = "58"
    /\ Len(c_cobweb.x) >= 3
    /\ \A i \in 1 .. Len(c_cobweb.x) - 1 : c_cobweb.x[i] # c_cobweb.x[i + 1]
    /\ c_cobweb.points[2][2] # c_cobweb.points[1][2]

\* C7: sim(x0, f, N) with N >= 1 returns only once its loop has run to the
\* end, a sequence of length N with x[0] = x0 and x[i] = f(x[i-1]) for every
\* i in 1 .. N-1, having applied f N-1 times; while it runs it has returned
\* nothing and has applied f once per entry filled; any two calls that have
\* returned and had the same (x0, f, N) returned the same sequence.
C7_SimRecurrence ==
    /\ c_sim.pc = "22" =>
          /\ c_sim.ret = <<>>
          /\ c_sim.i \in 1 .. (IF c_sim.N > 1 THEN c_sim.N ELSE 1)
          /\ c_sim.f_calls = c_sim.i - 1
    /\ c_sim.pc = "25" =>
          LET a == c_sim.args
              x == c_sim.ret
          IN  /\ Len(x) = a.N
              /\ x[1] = a.x0
              /\ \A i \in 1 .. a.N - 1 : x[i + 1] = MapApply(a.f, x[i])
              /\ c_sim.f_calls = a.N - 1
              /\ sim_log[Len(sim_log)] =
                    [args |-> a, ret |-> x, f_calls |-> a.N - 1]
    /\ \A j, k \in 1 .. Len(sim_log) :
          sim_log[j].args = sim_log[k].args => sim_log[j].ret = sim_log[k].ret

\* C7 witness: two calls with the same arguments, N >= 4, have returned, the
\* values of the sequence not all equal
C7_Witness ==
    /\ Len(sim_log) = 2
    /\ c_sim.pc = "25"
    /\ sim_log[1].args = sim_log[2].args
    /\ sim_log[1].args.N >= 4
    /\ sim_log[2].ret[4] # sim_log[2].ret[1]
    /\ sim_log[2].ret[4] # sim_log[2].ret[3]
=============================================================================
